---- MODULE Spec2Model ----
(***************************************************************************)
(* A model of lib/tower_cli/utils/parser.py: parse_kv, string_to_dict,     *)
(* revised_update and process_extra_vars.                                  *)
(*                                                                         *)
(* Text is a sequence of one-character strings.  A Python dict is a        *)
(* sequence of [k, v] records with distinct keys, in insertion order       *)
(* (json.dumps writes a dict in that order, yaml.dump sorts the keys).     *)
(* A value is an integer, a string or None.                                *)
(***************************************************************************)
EXTENDS Naturals, Sequences, FiniteSets

(***************************************************************************)
(* Bounds of the model.                                                    *)
(***************************************************************************)
\* the longest list of sources given to process_extra_vars
MaxSources == 2
\* the largest number of space-separated words in a text given to parse_kv
\* and to string_to_dict
MaxWords == 2

(***************************************************************************)
(* Characters and text.                                                    *)
(***************************************************************************)
\* the characters of the model's texts, in code-point order
CharOrder ==
  << "\n", " ", "\"", "#", "'", "-", "1", "2", ":", "=", "@", "\\", "_",
     "a", "b", "e", "f", "g", "m", "n", "o", "p", "q", "r", "s", "t",
     "w", "x", "z", "{", "}" >>

Ord(c) == CHOOSE i \in DOMAIN CharOrder : CharOrder[i] = c

Digits == {"1", "2"}

\* shlex's whitespace, restricted to the characters of the model
Whitespace == {" ", "\n"}

Has(text, c) == \E i \in DOMAIN text : text[i] = c

StartsWith(text, c) == Len(text) > 0 /\ text[1] = c

EndsWith(text, c) == Len(text) > 0 /\ text[Len(text)] = c

\* s < t in Python's order of strings
RECURSIVE StrLess(_, _)
StrLess(s, t) ==
  IF t = <<>> THEN FALSE
  ELSE IF s = <<>> THEN TRUE
  ELSE IF s[1] = t[1] THEN StrLess(Tail(s), Tail(t))
  ELSE Ord(s[1]) < Ord(t[1])

\* the position of the first c in text at or after i, 0 when there is none
RECURSIVE Find(_, _, _)
Find(text, c, i) ==
  IF i > Len(text) THEN 0
  ELSE IF text[i] = c THEN i
  ELSE Find(text, c, i + 1)

\* text.split(c)
RECURSIVE Split(_, _)
Split(text, c) ==
  LET i == Find(text, c, 1)
  IN IF i = 0 THEN <<text>>
     ELSE <<SubSeq(text, 1, i - 1)>> \o Split(SubSeq(text, i + 1, Len(text)), c)

\* sep.join(parts)
RECURSIVE Join(_, _)
Join(parts, sep) ==
  IF parts = <<>> THEN <<>>
  ELSE IF Len(parts) = 1 THEN parts[1]
  ELSE parts[1] \o sep \o Join(Tail(parts), sep)

\* text.rstrip()
RECURSIVE RStrip(_)
RStrip(text) ==
  IF text /= <<>> /\ text[Len(text)] \in Whitespace
  THEN RStrip(SubSeq(text, 1, Len(text) - 1))
  ELSE text

\* the decimal value of a text of digits
RECURSIVE DigitsToInt(_)
DigitsToInt(text) ==
  IF text = <<>> THEN 0
  ELSE 10 * DigitsToInt(SubSeq(text, 1, Len(text) - 1))
       + (CHOOSE n \in 0..9 :
            <<"0", "1", "2", "3", "4", "5", "6", "7", "8", "9">>[n + 1] = text[Len(text)])

\* the decimal text of a natural number
RECURSIVE IntToDigits(_)
IntToDigits(n) ==
  LET d == <<"0", "1", "2", "3", "4", "5", "6", "7", "8", "9">>[(n % 10) + 1]
  IN IF n < 10 THEN <<d>> ELSE IntToDigits(n \div 10) \o <<d>>

AllDigits(text) == text /= <<>> /\ \A i \in DOMAIN text : text[i] \in Digits

(***************************************************************************)
(* Values and dicts.                                                       *)
(***************************************************************************)
IntVal(n) == [t |-> "int", n |-> n, s |-> <<>>]
StrVal(s) == [t |-> "str", n |-> 0, s |-> s]
NoneVal == [t |-> "null", n |-> 0, s |-> <<>>]

\* the reserved key
RAW == <<"_", "r", "a", "w", "_", "p", "a", "r", "a", "m", "s">>

Keys(d) == {d[i].k : i \in DOMAIN d}

HasKey(d, k) == \E i \in DOMAIN d : d[i].k = k

Get(d, k) == d[CHOOSE i \in DOMAIN d : d[i].k = k].v

\* d[k] = v: an existing key keeps its place, a new key goes last
Put(d, k, v) ==
  IF HasKey(d, k)
  THEN [i \in DOMAIN d |-> IF d[i].k = k THEN [k |-> k, v |-> v] ELSE d[i]]
  ELSE Append(d, [k |-> k, v |-> v])

\* d without the key k
RECURSIVE Pop(_, _)
Pop(d, k) ==
  IF d = <<>> THEN <<>>
  ELSE IF d[1].k = k THEN Tail(d)
  ELSE <<d[1]>> \o Pop(Tail(d), k)

\* d1.update(d2)
RECURSIVE Update(_, _)
Update(d1, d2) ==
  IF d2 = <<>> THEN d1
  ELSE Update(Put(d1, d2[1].k, d2[1].v), Tail(d2))

\* d1 == d2 for two dicts: the order of insertion does not count
DictEq(d1, d2) ==
  /\ Keys(d1) = Keys(d2)
  /\ \A k \in Keys(d1) : Get(d1, k) = Get(d2, k)

\* str(v)
PyStr(v) ==
  IF v.t = "int" THEN IntToDigits(v.n)
  ELSE IF v.t = "str" THEN v.s
  ELSE <<"N", "o", "n", "e">>

\* what a call gives: a value, or the exception it raises
Ok(v) == [ok |-> TRUE, err |-> "", val |-> v]
Raise(e) == [ok |-> FALSE, err |-> e, val |-> <<>>]

(***************************************************************************)
(* shlex.split(text): POSIX rules, whitespace_split, no comments.  The     *)
(* texts of the model hold no backslash, so the escape state is left out.  *)
(***************************************************************************)
\* state: "ws" between tokens, "word" in a token, or the open quote character
RECURSIVE Lex(_, _, _, _, _, _)
Lex(text, i, state, token, quoted, out) ==
  IF i > Len(text) THEN
    IF state \in {"\"", "'"} THEN Raise("ValueError")
    ELSE IF state = "word" /\ (token /= <<>> \/ quoted) THEN Ok(Append(out, token))
    ELSE Ok(out)
  ELSE
    LET c == text[i] IN
    IF state = "ws" THEN
      IF c \in Whitespace THEN Lex(text, i + 1, "ws", <<>>, FALSE, out)
      ELSE IF c \in {"\"", "'"} THEN Lex(text, i + 1, c, <<>>, quoted, out)
      ELSE Lex(text, i + 1, "word", <<c>>, quoted, out)
    ELSE IF state = "word" THEN
      IF c \in Whitespace THEN
        IF token /= <<>> \/ quoted
        THEN Lex(text, i + 1, "ws", <<>>, FALSE, Append(out, token))
        ELSE Lex(text, i + 1, "ws", <<>>, FALSE, out)
      ELSE IF c \in {"\"", "'"} THEN Lex(text, i + 1, c, token, quoted, out)
      ELSE Lex(text, i + 1, "word", token \o <<c>>, quoted, out)
    ELSE
      IF c = state THEN Lex(text, i + 1, "word", token, TRUE, out)
      ELSE Lex(text, i + 1, state, token \o <<c>>, TRUE, out)

ShlexSplit(text) == Lex(text, 1, "ws", <<>>, FALSE, <<>>)

(***************************************************************************)
(* ast.literal_eval(v).  Of the texts the model can build, only a text of  *)
(* digits is a Python literal; every other one raises and the caller keeps *)
(* the raw string.                                                         *)
(***************************************************************************)
LiteralEval(v) ==
  IF AllDigits(v) THEN Ok(IntVal(DigitsToInt(v))) ELSE Raise("ValueError")

(***************************************************************************)
(* parse_kv: the body of the loop over the tokens, for one token.          *)
(***************************************************************************)
\* the bare token as it is stored: re-wrapped in double quotes if it has a space
Wrapped(token) ==
  IF Has(token, " ") THEN <<"\"">> \o token \o <<"\"">> ELSE token

\* a key=value token
KvAssign(return_dict, token) ==
  LET parts == Split(token, "=") IN
  IF Len(parts) /= 2 THEN Raise("ValueError")
  ELSE LET k == parts[1]
           v == parts[2]
           lit == LiteralEval(v)
       IN IF Len(k) = 0 \/ Len(v) = 0 THEN Raise("MalformedAssignment")
          ELSE IF lit.ok THEN Ok(Put(return_dict, k, lit.val))
          ELSE Ok(Put(return_dict, k, StrVal(v)))

\* a bare token
KvRaw(return_dict, token) ==
  LET tok == Wrapped(token) IN
  IF EndsWith(tok, ":") THEN Raise("SuspiciousToken")
  ELSE IF HasKey(return_dict, RAW) THEN
    IF Get(return_dict, RAW).t = "str"
    THEN Ok(Put(return_dict, RAW, StrVal(Get(return_dict, RAW).s \o <<" ">> \o tok)))
    ELSE Raise("TypeError")
  ELSE Ok(Put(return_dict, RAW, StrVal(tok)))

KvToken(return_dict, token) ==
  IF Has(token, "=") THEN KvAssign(return_dict, token)
  ELSE KvRaw(return_dict, token)

\* the loop over the tokens
RECURSIVE KvLoop(_, _)
KvLoop(return_dict, toks) ==
  IF toks = <<>> THEN Ok(return_dict)
  ELSE LET r == KvToken(return_dict, toks[1])
       IN IF r.ok THEN KvLoop(r.val, Tail(toks)) ELSE r

parse_kv(var_string) ==
  LET toks == ShlexSplit(var_string)
  IN IF toks.ok THEN KvLoop(<<>>, toks.val) ELSE toks

(***************************************************************************)
(* yaml.load(text), for the texts of the model: lines with no indentation, *)
(* each a comment (# in the first column, the only place the model's texts *)
(* hold a #), a blank line, the empty flow mapping {}, a quoted or plain   *)
(* scalar, or a block-mapping entry "key: value" with a scalar value.      *)
(* The document is parsed first (any error of syntax is a yaml.YAMLError)  *)
(* and its scalars are constructed after: the constructor of a date raises *)
(* ValueError, which is no YAMLError, for a month or a day out of range.   *)
(***************************************************************************)
NullText == <<"n", "u", "l", "l">>

\* a plain scalar of the form dddd-dd-dd
DateLike(s) ==
  /\ Len(s) = 10
  /\ \A i \in 1..10 : IF i \in {5, 8} THEN s[i] = "-" ELSE s[i] \in Digits

\* the implicit tag of a plain scalar
ImplicitTag(s) ==
  IF AllDigits(s) THEN "int"
  ELSE IF s = <<>> \/ s = NullText THEN "null"
  ELSE IF DateLike(s) THEN "timestamp"
  ELSE "str"

\* the value constructed from a plain scalar, or the exception of its
\* constructor; the texts of the model hold no date that exists
ConstructAs(tag, s) ==
  IF tag = "int" THEN Ok(IntVal(DigitsToInt(s)))
  ELSE IF tag = "null" THEN Ok(NoneVal)
  ELSE IF tag = "timestamp"
          /\ ( DigitsToInt(SubSeq(s, 6, 7)) \notin 1..12
               \/ DigitsToInt(SubSeq(s, 9, 10)) \notin 1..31 )
       THEN Raise("ValueError")
  ELSE Ok(StrVal(s))

Construct(s) == ConstructAs(ImplicitTag(s), s)

\* the position of the first ':' of text that is followed by a space or ends
\* the text (YAML's mapping-value indicator), 0 when there is none
RECURSIVE ValueIndicator(_, _)
ValueIndicator(text, i) ==
  IF i > Len(text) THEN 0
  ELSE IF text[i] = ":" /\ (i = Len(text) \/ text[i + 1] = " ") THEN i
  ELSE ValueIndicator(text, i + 1)

\* text after position i, less one separating space
AfterIndicator(text, i) ==
  IF i >= Len(text) THEN <<>> ELSE SubSeq(text, i + 2, Len(text))

\* the value of a block-mapping entry
YamlValue(vt) ==
  IF vt = <<>> THEN Ok(NoneVal)
  ELSE IF vt[1] \in {"\"", "'"} THEN
    LET j == Find(vt, vt[1], 2) IN
    IF j = Len(vt) /\ j > 1 THEN Ok(StrVal(SubSeq(vt, 2, j - 1)))
    ELSE Raise("YAMLError")
  ELSE IF vt[1] \in {"{", "}", "@", "#"} THEN Raise("YAMLError")
  ELSE IF ValueIndicator(vt, 1) /= 0 THEN Raise("YAMLError")
  ELSE Construct(vt)

\* one line of content: kind is "entry", "scalar", "flowmap", "error" (of
\* syntax) or "raise" (an entry whose key or value cannot be constructed)
YamlLine(line) ==
  LET made(k, v, keyok) ==
        IF k = <<>> \/ (~v.ok /\ v.err = "YAMLError")
        THEN [kind |-> "error", k |-> <<>>, v |-> NoneVal]
        ELSE IF ~v.ok \/ ~keyok
        THEN [kind |-> "raise", k |-> <<>>, v |-> NoneVal]
        ELSE [kind |-> "entry", k |-> k, v |-> v.val]
      entry(k, vt, plainkey) == made(k, YamlValue(vt), plainkey => Construct(k).ok)
      scalar == [kind |-> "scalar", k |-> <<>>, v |-> NoneVal]
      error == [kind |-> "error", k |-> <<>>, v |-> NoneVal]
  IN IF line = <<"{", "}">> THEN [kind |-> "flowmap", k |-> <<>>, v |-> NoneVal]
     ELSE IF line[1] \in {"\"", "'"} THEN
       LET j == Find(line, line[1], 2)
           rest == SubSeq(line, j + 1, Len(line))
       IN IF j = 0 THEN error
          ELSE IF rest = <<>> THEN scalar
          ELSE IF ValueIndicator(rest, 1) = 1
               THEN entry(SubSeq(line, 2, j - 1), AfterIndicator(rest, 1), FALSE)
          ELSE error
     ELSE IF line[1] \in {"{", "}", "@"} THEN error
     ELSE LET i == ValueIndicator(line, 1)
          IN IF i = 0 THEN scalar
             ELSE entry(SubSeq(line, 1, i - 1), AfterIndicator(line, i), TRUE)

\* the lines of a text that are neither blank nor a comment
ContentLines(text) ==
  SelectSeq(Split(text, "\n"), LAMBDA l : l /= <<>> /\ l[1] /= "#")

\* the dict of a sequence of block-mapping entries: a repeated key keeps its
\* first place and takes its last value
RECURSIVE EntriesDict(_, _)
EntriesDict(d, entries) ==
  IF entries = <<>> THEN d
  ELSE EntriesDict(Put(d, entries[1].k, entries[1].v), Tail(entries))

\* kind is "map" (a dict, in map), "null", "other" (any other value),
\* "error" (yaml.YAMLError) or "raise" (the ValueError of a constructor)
YamlLoad(text) ==
  LET lines == ContentLines(text)
      parsed == [i \in DOMAIN lines |-> YamlLine(lines[i])]
      kinds == {parsed[i].kind : i \in DOMAIN parsed}
      quoted(l) == l[1] \in {"\"", "'"}
      res(kind, map) == [kind |-> kind, map |-> map]
  IN IF lines = <<>> THEN res("null", <<>>)
     ELSE IF "error" \in kinds THEN res("error", <<>>)
     ELSE IF kinds \subseteq {"entry", "raise"}
          THEN IF "raise" \in kinds THEN res("raise", <<>>)
               ELSE res("map", EntriesDict(<<>>, parsed))
     ELSE IF Len(lines) = 1 /\ kinds = {"flowmap"} THEN res("map", <<>>)
     ELSE IF Len(lines) = 1
          THEN IF ~quoted(lines[1]) /\ ~Construct(lines[1]).ok
               THEN res("raise", <<>>) ELSE res("other", <<>>)
     ELSE IF kinds = {"scalar"} /\ \A i \in DOMAIN lines : ~quoted(lines[i])
          THEN res("other", <<>>)
     ELSE res("error", <<>>)

(***************************************************************************)
(* yaml.dump(d, default_flow_style=False): block style, keys sorted.       *)
(***************************************************************************)
\* whether the emitter writes the string plain (otherwise single-quoted)
PlainOk(s) ==
  /\ s /= <<>>
  /\ ImplicitTag(s) = "str"
  /\ s[1] \notin {"\"", "#", "'", "{", "}", "@", " "}
  /\ s[Len(s)] /= " "
  /\ ValueIndicator(s, 1) = 0
  /\ \A i \in DOMAIN s : s[i] \notin {"\n", "'"}
  /\ \A i \in DOMAIN s : s[i] = "#" => (i > 1 /\ s[i - 1] /= " ")

\* a string between single quotes
SingleQuoted(s) == <<"'">> \o s \o <<"'">>

YamlScalar(v) ==
  IF v.t = "int" THEN IntToDigits(v.n)
  ELSE IF v.t = "null" THEN NullText
  ELSE IF PlainOk(v.s) THEN v.s
  ELSE SingleQuoted(v.s)

\* the keys of d in sorted order
RECURSIVE SortedKeys(_)
SortedKeys(ks) ==
  IF ks = {} THEN <<>>
  ELSE LET m == CHOOSE k \in ks : \A o \in ks \ {k} : StrLess(k, o)
       IN <<m>> \o SortedKeys(ks \ {m})

RECURSIVE YamlEntries(_, _)
YamlEntries(d, ks) ==
  IF ks = <<>> THEN <<>>
  ELSE YamlScalar(StrVal(ks[1])) \o <<":", " ">> \o YamlScalar(Get(d, ks[1]))
       \o <<"\n">> \o YamlEntries(d, Tail(ks))

YamlDump(d) ==
  IF d = <<>> THEN <<"{", "}", "\n">>
  ELSE YamlEntries(d, SortedKeys(Keys(d)))

(***************************************************************************)
(* json.dumps(d): the keys in insertion order.                             *)
(***************************************************************************)
RECURSIVE JsonEscape(_)
JsonEscape(s) ==
  IF s = <<>> THEN <<>>
  ELSE (IF s[1] = "\"" THEN <<"\\", "\"">>
        ELSE IF s[1] = "\\" THEN <<"\\", "\\">>
        ELSE IF s[1] = "\n" THEN <<"\\", "n">>
        ELSE <<s[1]>>) \o JsonEscape(Tail(s))

JsonString(s) == <<"\"">> \o JsonEscape(s) \o <<"\"">>

JsonValue(v) ==
  IF v.t = "int" THEN IntToDigits(v.n)
  ELSE IF v.t = "null" THEN NullText
  ELSE JsonString(v.s)

RECURSIVE JsonItems(_)
JsonItems(d) ==
  IF d = <<>> THEN <<>>
  ELSE JsonString(d[1].k) \o <<":", " ">> \o JsonValue(d[1].v)
       \o (IF Len(d) > 1 THEN <<",", " ">> ELSE <<>>) \o JsonItems(Tail(d))

JsonDumps(d) == <<"{">> \o JsonItems(d) \o <<"}">>

(***************************************************************************)
(* string_to_dict, revised_update                                          *)
(***************************************************************************)
\* the fallback of string_to_dict, after structured decoding failed
KvFallback(var_string, allow_kv) ==
  IF ~allow_kv THEN Raise("TowerCLIError")
  ELSE LET r == parse_kv(var_string)
       IN IF r.ok THEN r ELSE Raise("TowerCLIError")

string_to_dict(var_string, allow_kv) ==
  LET y == YamlLoad(var_string)
  IN IF y.kind = "map" THEN Ok(y.map)
     ELSE IF y.kind = "raise" THEN Raise("ValueError")
     ELSE KvFallback(var_string, allow_kv)

\* dict1 after revised_update(dict1, dict2), or the exception raised
revised_update(dict1, dict2) ==
  IF HasKey(dict2, RAW) /\ HasKey(dict1, RAW) THEN
    IF Get(dict1, RAW).t = "str"
    THEN Ok(Update(Put(dict1, RAW,
                       StrVal(Get(dict1, RAW).s \o <<" ">> \o PyStr(Get(dict2, RAW)))),
                   Pop(dict2, RAW)))
    ELSE Raise("TypeError")
  ELSE Ok(Update(dict1, dict2))

(***************************************************************************)
(* The inputs of the model.                                                *)
(***************************************************************************)
\* the words a text given to parse_kv or string_to_dict is made of
Words ==
  { <<"a", "=", "1">>,                          \* a=1
    <<"a", "=", "x">>,                          \* a=x
    <<"a", "=", "x", "=", "1">>,                \* a=x=1
    <<"=", "x">>,                               \* =x
    <<"x", "=">>,                               \* x=
    <<"x">>,                                    \* x
    <<"1">>,                                    \* 1
    <<"x", ":">>,                               \* x:
    <<"\"", "x", " ", "w", "\"">>,              \* "x w"
    <<"\"", "x", " ", "w", ":", "\"">>,         \* "x w:"
    <<"\"", "x">>,                              \* "x  (the quote is not closed)
    <<"1", "2", "1", "2", "-", "2", "1", "-", "1", "2">>,   \* 1212-21-12
    RAW \o <<"=", "z">>,                        \* _raw_params=z
    RAW \o <<"=", "1">> }                       \* _raw_params=1

\* the texts of at most MaxWords words, a single space between two words
Texts ==
  { Join(ws, <<" ">>) : ws \in UNION { [1..n -> Words] : n \in 0..MaxWords } }

\* the files of the model: name -> content.  No file is named q.
Files ==
  [ n \in { <<"f">>, <<"g">>, <<"m">> } |->
      IF n = <<"f">> THEN <<"#", " ", "e", "\n", "b", ":", " ", "2">>   \* a comment, b: 2
      ELSE IF n = <<"g">> THEN <<"a", "=", "1">>                        \* a=1
      ELSE <<"x", ":", " ", "1", "2", "1", "2", "-", "2", "1", "-", "1", "2">> ]  \* x: 1212-21-12

\* the sources given to process_extra_vars
Sources ==
  { <<>>,                                                   \* the empty string
    <<"a", "=", "1">>,                                      \* a=1
    <<"a", "=", "2">>,                                      \* a=2
    <<"x">>,                                                \* x
    <<"\"", "x", " ", "w", "\"">>,                          \* "x w"
    <<"x", " ">> \o RAW \o <<"=", "z">>,                    \* x _raw_params=z
    RAW \o <<"=", "1">>,                                    \* _raw_params=1
    <<"x", ":">>,                                           \* x:
    <<"x", "=">>,                                           \* x=
    <<"#", " ", "n", "\n">>,                                \* a comment line alone
    <<"#", " ", "n", "\n", "a", ":", " ", "1">>,            \* a comment line, a: 1
    <<"@", "f">>, <<"@", "g">>, <<"@", "m">>, <<"@", "q">> }   \* files f, g, m and q

\* the dicts given to revised_update: at most MaxEntries entries
MaxEntries == 2

DictKeys == { RAW, <<"a">>, <<"b">> }

DictValues == { IntVal(1), StrVal(<<"x">>), StrVal(<<"z">>) }

Dicts ==
  { d \in UNION { [1..n -> [k : DictKeys, v : DictValues]] : n \in 0..MaxEntries } :
      \A i, j \in DOMAIN d : i /= j => d[i].k /= d[j].k }

(***************************************************************************)
(* The state.                                                              *)
(***************************************************************************)
VARIABLES
  \* parse_kv and string_to_dict: the arguments, the tokens of shlex.split,
  \* the position of the loop in them, the dict being built, where parse_kv
  \* is and the exception it raised
  var_string, allow_kv, tokens, kv_i, return_dict, kv_pc, kv_err,
  \* where string_to_dict is, and the exception it raised
  sd_pc, sd_err,
  \* revised_update: the arguments, where it is and the exception it raised
  dict1, dict2, ru_pc, ru_err,
  \* process_extra_vars: the arguments, the number of sources consumed, the
  \* running total, the YAML trace, where it is, what it returned or raised
  extra_vars_list, force_json, idx, extra_vars, extra_vars_yaml, pc, result, err

kvVars == <<var_string, allow_kv, tokens, kv_i, return_dict, kv_pc, kv_err>>
sdVars == <<sd_pc, sd_err>>
ruVars == <<dict1, dict2, ru_pc, ru_err>>
pvVars == <<extra_vars_list, force_json, idx, extra_vars, extra_vars_yaml, pc, result, err>>
vars == <<kvVars, sdVars, ruVars, pvVars>>

\* a function that is not being called
KvIdle ==
  /\ var_string = <<>> /\ allow_kv = TRUE /\ tokens = <<>> /\ kv_i = 1
  /\ return_dict = <<>> /\ kv_pc = "idle" /\ kv_err = ""
SdIdle == sd_pc = "idle" /\ sd_err = ""
RuIdle == dict1 = <<>> /\ dict2 = <<>> /\ ru_pc = "idle" /\ ru_err = ""
PvIdle ==
  /\ extra_vars_list = <<>> /\ force_json = TRUE /\ idx = 0 /\ extra_vars = <<>>
  /\ extra_vars_yaml = <<>> /\ pc = "idle" /\ result = <<>> /\ err = ""

(***************************************************************************)
(* parse_kv, a token at a time.                                            *)
(***************************************************************************)
\* shlex.split(var_string)
KvSplit ==
  /\ kv_pc = "split"
  /\ LET toks == ShlexSplit(var_string)
     IN IF toks.ok
        THEN /\ tokens' = toks.val
             /\ kv_pc' = "loop"
             /\ kv_err' = kv_err
        ELSE /\ tokens' = tokens
             /\ kv_pc' = "raised"
             /\ kv_err' = toks.err
  /\ UNCHANGED <<var_string, allow_kv, kv_i, return_dict, sdVars, ruVars, pvVars>>

\* one turn of the loop over the tokens
KvStep ==
  /\ kv_pc = "loop"
  /\ kv_i <= Len(tokens)
  /\ LET r == KvToken(return_dict, tokens[kv_i])
     IN IF r.ok
        THEN /\ return_dict' = r.val
             /\ kv_i' = kv_i + 1
             /\ UNCHANGED <<kv_pc, kv_err>>
        ELSE /\ kv_pc' = "raised"
             /\ kv_err' = r.err
             /\ UNCHANGED <<return_dict, kv_i>>
  /\ UNCHANGED <<var_string, allow_kv, tokens, sdVars, ruVars, pvVars>>

\* return return_dict
KvReturn ==
  /\ kv_pc = "loop"
  /\ kv_i > Len(tokens)
  /\ kv_pc' = "returned"
  /\ UNCHANGED <<var_string, allow_kv, tokens, kv_i, return_dict, kv_err,
                 sdVars, ruVars, pvVars>>

InitKV ==
  /\ var_string \in Texts
  /\ allow_kv = TRUE /\ tokens = <<>> /\ kv_i = 1
  /\ return_dict = <<>> /\ kv_pc = "split" /\ kv_err = ""
  /\ SdIdle /\ RuIdle /\ PvIdle

NextKV == KvSplit \/ KvStep \/ KvReturn

SpecKV == InitKV /\ [][NextKV]_vars

(***************************************************************************)
(* string_to_dict, which calls parse_kv.                                   *)
(***************************************************************************)
\* lines 96-97: whether yaml.load gave a dict
Decoded(y) == y.kind = "map"

\* line 101: assert allow_kv
FallbackAllowed(flag) == flag

\* lines 103-107: the exception string_to_dict raises for whatever was caught
Wrapping(e) == "TowerCLIError"

\* line 98: the exceptions of the try block that the except clause names;
\* "error" is yaml.YAMLError, a value that is no dict fails the assertion
Caught(y) == y.kind \in {"error", "null", "other"}

\* the try block: yaml.load and the assertion
SdDecode ==
  /\ sd_pc = "decode"
  /\ LET y == YamlLoad(var_string)
     IN IF Decoded(y)
        THEN /\ return_dict' = y.map
             /\ sd_pc' = "returned"
             /\ sd_err' = sd_err
        ELSE IF Caught(y)
        THEN /\ return_dict' = return_dict
             /\ sd_pc' = "except"
             /\ sd_err' = sd_err
        ELSE /\ return_dict' = return_dict
             /\ sd_pc' = "raised"
             /\ sd_err' = "ValueError"
  /\ UNCHANGED <<var_string, allow_kv, tokens, kv_i, kv_pc, kv_err, ruVars, pvVars>>

\* the except block: the assertion, then the call of parse_kv
SdFallback ==
  /\ sd_pc = "except"
  /\ IF FallbackAllowed(allow_kv)
     THEN /\ sd_pc' = "parse_kv"
          /\ kv_pc' = "split"
          /\ sd_err' = sd_err
     ELSE /\ sd_pc' = "raised"
          /\ sd_err' = Wrapping("AssertionError")
          /\ kv_pc' = kv_pc
  /\ UNCHANGED <<var_string, allow_kv, tokens, kv_i, return_dict, kv_err,
                 ruVars, pvVars>>

\* parse_kv has returned or raised
SdAfterKv ==
  /\ sd_pc = "parse_kv"
  /\ kv_pc \in {"returned", "raised"}
  /\ IF kv_pc = "returned"
     THEN /\ sd_pc' = "returned"
          /\ sd_err' = sd_err
     ELSE /\ sd_pc' = "raised"
          /\ sd_err' = Wrapping(kv_err)
  /\ UNCHANGED <<kvVars, ruVars, pvVars>>

InitDict ==
  /\ var_string \in Texts
  /\ allow_kv \in BOOLEAN
  /\ tokens = <<>> /\ kv_i = 1 /\ return_dict = <<>> /\ kv_pc = "idle" /\ kv_err = ""
  /\ sd_pc = "decode" /\ sd_err = ""
  /\ RuIdle /\ PvIdle

NextDict == SdDecode \/ SdFallback \/ KvSplit \/ KvStep \/ KvReturn \/ SdAfterKv

SpecDict == InitDict /\ [][NextDict]_vars

(***************************************************************************)
(* revised_update                                                          *)
(***************************************************************************)
\* line 114 reads dict1's _raw_params, then pops dict2's, then adds: dict2 has
\* lost its _raw_params whether the addition raises or not
RevisedUpdate ==
  /\ ru_pc = "call"
  /\ dict2' = (IF HasKey(dict2, RAW) /\ HasKey(dict1, RAW)
               THEN Pop(dict2, RAW) ELSE dict2)
  /\ LET r == revised_update(dict1, dict2)
     IN IF r.ok
        THEN /\ dict1' = r.val
             /\ ru_pc' = "returned"
             /\ ru_err' = ru_err
        ELSE /\ dict1' = dict1
             /\ ru_pc' = "raised"
             /\ ru_err' = r.err
  /\ UNCHANGED <<kvVars, sdVars, pvVars>>

InitMerge ==
  /\ dict1 \in Dicts /\ dict2 \in Dicts /\ ru_pc = "call" /\ ru_err = ""
  /\ KvIdle /\ SdIdle /\ PvIdle

NextMerge == RevisedUpdate

SpecMerge == InitMerge /\ [][NextMerge]_vars

(***************************************************************************)
(* process_extra_vars                                                      *)
(***************************************************************************)
\* line 131: whether the source names a file
IsFileRef(opt) == StartsWith(opt, "@")

\* lines 135 and 138: the KV fallback is allowed for every source but a file
AllowKvFor(opt) == ~IsFileRef(opt)

\* lines 131-133: the text to decode, or the exception of open()
EffectiveText(opt) ==
  IF IsFileRef(opt)
  THEN IF Tail(opt) \in DOMAIN Files THEN Ok(Files[Tail(opt)]) ELSE Raise("IOError")
  ELSE Ok(opt)

\* line 140: some line of the text starts with '#'
HasCommentLine(text) ==
  \E i \in DOMAIN Split(text, "\n") : StartsWith(Split(text, "\n")[i], "#")

\* a process_extra_vars that always renders the decoded mapping, comments or not
TraceAppendDumped(trace, text, opt_dict) ==
  IF text /= <<>> THEN trace \o YamlDump(opt_dict) \o <<"\n">> ELSE trace

\* lines 140-144: the trace after a source of this text and this dict
TraceAppend(trace, text, opt_dict) ==
  IF HasCommentLine(text) THEN trace \o text \o <<"\n">>
  ELSE IF text /= <<>> THEN trace \o YamlDump(opt_dict) \o <<"\n">>
  ELSE trace

\* a process_extra_vars that forgets the assertion of line 153
SafeToReturnYamlUnasserted(trace) == YamlLoad(trace).kind /= "error"

\* lines 152-153: the trace may be returned as it is
SafeToReturnYaml(trace) == YamlLoad(trace).kind = "map"

\* lines 159-161
JsonReturn(total) == IF total = <<>> THEN <<>> ELSE JsonDumps(total)

\* one turn of the loop over the sources: the file read, the decoding, the
\* trace and the merge
LoopStep ==
  /\ pc = "loop"
  /\ idx < Len(extra_vars_list)
  /\ LET opt == extra_vars_list[idx + 1]
         text == EffectiveText(opt)
         opt_dict == IF text.ok THEN string_to_dict(text.val, AllowKvFor(opt)) ELSE text
         merged == IF opt_dict.ok THEN revised_update(extra_vars, opt_dict.val) ELSE opt_dict
     IN IF merged.ok
        THEN /\ extra_vars' = merged.val
             /\ extra_vars_yaml' = TraceAppend(extra_vars_yaml, text.val, opt_dict.val)
             /\ idx' = idx + 1
             /\ UNCHANGED <<pc, err>>
        ELSE /\ pc' = "raised"
             /\ err' = merged.err
             /\ extra_vars_yaml' =
                  (IF opt_dict.ok
                   THEN TraceAppend(extra_vars_yaml, text.val, opt_dict.val)
                   ELSE extra_vars_yaml)
             /\ UNCHANGED <<extra_vars, idx>>
  /\ UNCHANGED <<extra_vars_list, force_json, result, kvVars, sdVars, ruVars>>

\* after the loop: the trace if it is asked for and safe, else JSON
Return ==
  /\ pc = "loop"
  /\ idx = Len(extra_vars_list)
  /\ result' = (IF ~force_json /\ SafeToReturnYaml(extra_vars_yaml)
                THEN RStrip(extra_vars_yaml)
                ELSE JsonReturn(extra_vars))
  /\ pc' = "done"
  /\ UNCHANGED <<extra_vars_list, force_json, idx, extra_vars, extra_vars_yaml, err,
                 kvVars, sdVars, ruVars>>

Init ==
  /\ extra_vars_list \in UNION { [1..n -> Sources] : n \in 0..MaxSources }
  /\ force_json \in BOOLEAN
  /\ idx = 0 /\ extra_vars = <<>> /\ extra_vars_yaml = <<>>
  /\ pc = "loop" /\ result = <<>> /\ err = ""
  /\ KvIdle /\ SdIdle /\ RuIdle

Next == LoopStep \/ Return

Spec == Init /\ [][Next]_vars

(***************************************************************************)
(* What the claims speak of.                                               *)
(***************************************************************************)
\* the text process_extra_vars decodes for a source that can be read
TextOf(opt) == EffectiveText(opt).val

\* the source can be read and decodes
Decodes(opt) ==
  /\ EffectiveText(opt).ok
  /\ string_to_dict(TextOf(opt), AllowKvFor(opt)).ok

\* the positional tokens of a source, as parse_kv stores them; a source that
\* decodes as structured markup has none
PositionalOf(opt) ==
  LET toks == ShlexSplit(TextOf(opt))
      bare == SelectSeq(toks.val, LAMBDA tok : ~Has(tok, "="))
  IN IF YamlLoad(TextOf(opt)).kind = "map" \/ ~toks.ok THEN <<>>
     ELSE [i \in DOMAIN bare |-> Wrapped(bare[i])]

\* the positional tokens of the first n sources, in source order
RECURSIVE Encountered(_, _)
Encountered(list, n) ==
  IF n = 0 THEN <<>>
  ELSE Encountered(list, n - 1) \o PositionalOf(list[n])

\* the merge as the specification describes it
ClaimedMerge(base, incoming) ==
  IF HasKey(base, RAW) /\ HasKey(incoming, RAW)
  THEN Update(Put(base, RAW,
                  StrVal(PyStr(Get(base, RAW)) \o <<" ">> \o PyStr(Get(incoming, RAW)))),
              Pop(incoming, RAW))
  ELSE Update(base, incoming)

\* the left fold of that merge over the mappings of the sources
RECURSIVE ClaimedTotal(_, _)
ClaimedTotal(list, n) ==
  IF n = 0 THEN <<>>
  ELSE ClaimedMerge(ClaimedTotal(list, n - 1),
                    string_to_dict(TextOf(list[n]), AllowKvFor(list[n])).val)

\* the running total of the code after the first n sources, none of which raised
RECURSIVE TotalOf(_, _)
TotalOf(list, n) ==
  IF n = 0 THEN <<>>
  ELSE revised_update(TotalOf(list, n - 1),
                      string_to_dict(TextOf(list[n]), AllowKvFor(list[n])).val).val

\* what the call with force_json = True returns for the same sources
ForcedJson(list) ==
  IF TotalOf(list, Len(list)) = <<>> THEN <<>> ELSE JsonDumps(TotalOf(list, Len(list)))

\* the texts of the sources, each followed by a newline
RECURSIVE VerbatimTrace(_)
VerbatimTrace(list) ==
  IF list = <<>> THEN <<>>
  ELSE TextOf(list[1]) \o <<"\n">> \o VerbatimTrace(Tail(list))

\* the text holds comment lines and nothing else
OnlyComments(text) ==
  /\ HasCommentLine(text)
  /\ \A i \in DOMAIN Split(text, "\n") :
       Split(text, "\n")[i] = <<>> \/ StartsWith(Split(text, "\n")[i], "#")

\* a file that can be read and whose content is no structured-markup mapping
BadFile(opt) ==
  /\ IsFileRef(opt)
  /\ EffectiveText(opt).ok
  /\ YamlLoad(TextOf(opt)).kind /= "map"

\* a key=value token split at its first '='
FirstKey(token) == SubSeq(token, 1, Find(token, "=", 1) - 1)
FirstValue(token) == SubSeq(token, Find(token, "=", 1) + 1, Len(token))

\* a bare token that ends with a colon
Suspicious(token) == ~Has(token, "=") /\ EndsWith(token, ":")

(***************************************************************************)
(* The claims.                                                             *)
(***************************************************************************)
\* C1: after any number of sources has been folded into the running total,
\* its _raw_params entry, when present, is the single-space join of every
\* positional token met so far, in source order and then token order, and
\* _raw_params is never set as an ordinary key (it is absent while no
\* positional token has been met).
C1_RawParamsJoinsPositionals ==
  pc \in {"loop", "done"} =>
    LET met == Encountered(extra_vars_list, idx)
    IN IF met = <<>> THEN ~HasKey(extra_vars, RAW)
       ELSE /\ HasKey(extra_vars, RAW)
            /\ Get(extra_vars, RAW) = StrVal(Join(met, <<" ">>))

\* C2: with force_json, for sources that all decode, the call returns "" when
\* the left fold of the merge over the sources' mappings is empty and the JSON
\* text of that fold otherwise.
C2_ForcedJsonOfTotal ==
  ( /\ force_json
    /\ pc \in {"done", "raised"}
    /\ \A j \in DOMAIN extra_vars_list : Decodes(extra_vars_list[j]) )
  => /\ pc = "done"
     /\ result = JsonReturn(ClaimedTotal(extra_vars_list, Len(extra_vars_list)))

\* C3: without force_json, the call returns the trace, trimmed of trailing
\* whitespace, if the trace decodes as structured markup to a mapping, and in
\* every other case what the call with force_json returns for the same sources.
C3_TraceIffMapping ==
  (pc = "done" /\ ~force_json) =>
    result = (IF YamlLoad(extra_vars_yaml).kind = "map"
              THEN RStrip(extra_vars_yaml)
              ELSE ForcedJson(extra_vars_list))

\* the witness of C3: a trace that is no mapping, and the JSON text returned
C3_Witness ==
  /\ pc = "done" /\ ~force_json
  /\ extra_vars_yaml /= <<>>
  /\ YamlLoad(extra_vars_yaml).kind /= "map"
  /\ result = JsonDumps(extra_vars)
  /\ extra_vars /= <<>>

\* C4 as written: for sources that hold only comment lines, the call without
\* force_json returns the trace (the text of the sources) trimmed of trailing
\* whitespace.
C4_CommentOnlyReturnsTrace ==
  ( /\ pc = "done" /\ ~force_json
    /\ extra_vars_list /= <<>>
    /\ \A j \in DOMAIN extra_vars_list : OnlyComments(TextOf(extra_vars_list[j])) )
  => result = RStrip(VerbatimTrace(extra_vars_list))

\* C4 as amended: for sources that each hold a comment line, the trace is the
\* text of the sources, each followed by a newline; the call without
\* force_json returns it trimmed when it decodes to a mapping; when the
\* sources hold only comment lines the trace decodes to null and the call
\* returns the JSON text of the running total instead of the trace.
C4_CommentsKeptWhenMapping ==
  ( /\ pc = "done" /\ ~force_json
    /\ extra_vars_list /= <<>>
    /\ \A j \in DOMAIN extra_vars_list : HasCommentLine(TextOf(extra_vars_list[j])) )
  => /\ extra_vars_yaml = VerbatimTrace(extra_vars_list)
     /\ YamlLoad(extra_vars_yaml).kind = "map"
          => result = RStrip(VerbatimTrace(extra_vars_list))
     /\ (\A j \in DOMAIN extra_vars_list : OnlyComments(TextOf(extra_vars_list[j])))
          => /\ YamlLoad(extra_vars_yaml).kind = "null"
             /\ result = ForcedJson(extra_vars_list)
             /\ result /= RStrip(VerbatimTrace(extra_vars_list))

\* the witness of C4: two sources with comments, returned with their comments
C4_Witness ==
  /\ pc = "done" /\ ~force_json
  /\ Len(extra_vars_list) = 2
  /\ \A j \in DOMAIN extra_vars_list : HasCommentLine(TextOf(extra_vars_list[j]))
  /\ IsFileRef(extra_vars_list[2])
  /\ result = RStrip(VerbatimTrace(extra_vars_list))
  /\ Has(result, "#")

\* C5: revised_update(base, incoming) returns and leaves base such that: with
\* _raw_params in both, base's is its old value, a space and incoming's; with
\* _raw_params in one only, it is that value; every other key of incoming has
\* incoming's value; every key of base alone keeps its value.
C5_MergePostcondition ==
  [][ ru_pc = "call" =>
        /\ ru_pc' = "returned"
        /\ Keys(dict1') = Keys(dict1) \cup Keys(dict2)
        /\ \A k \in Keys(dict1') :
             Get(dict1', k) =
               (IF k = RAW /\ HasKey(dict1, RAW) /\ HasKey(dict2, RAW)
                THEN StrVal(PyStr(Get(dict1, RAW)) \o <<" ">> \o PyStr(Get(dict2, RAW)))
                ELSE IF HasKey(dict2, k) THEN Get(dict2, k)
                ELSE Get(dict1, k)) ]_vars

\* C6: string_to_dict returns the decoded value when the text decodes as
\* structured markup to a mapping; otherwise, with allow_kv it returns what
\* parse_kv returns and raises TowerCLIError when parse_kv raises, and without
\* allow_kv it raises TowerCLIError; no other exception escapes.
C6_DecodeThenFallback ==
  LET y == YamlLoad(var_string)
      kv == parse_kv(var_string)
  IN /\ sd_pc = "returned" =>
          IF y.kind = "map" THEN return_dict = y.map
          ELSE allow_kv /\ kv.ok /\ return_dict = kv.val
     /\ sd_pc = "raised" =>
          /\ sd_err = "TowerCLIError"
          /\ y.kind /= "map"
          /\ ~allow_kv \/ ~kv.ok

\* C7: when every file named by a source can be read and some source is a
\* file whose content is no structured-markup mapping, the call fails with
\* TowerCLIError and returns no string, whatever the place of that source and
\* whatever the other sources.
C7_BadFileRaisesParseError ==
  ( /\ \A j \in DOMAIN extra_vars_list : EffectiveText(extra_vars_list[j]).ok
    /\ \E j \in DOMAIN extra_vars_list : BadFile(extra_vars_list[j])
    /\ pc \in {"done", "raised"} )
  => (pc = "raised" /\ err = "TowerCLIError")

\* C8: a token with '=' is split at its first '='; parse_kv fails with
\* MalformedAssignment exactly when the key or the value is empty, and
\* otherwise stores under the key the literal value, or the raw string when
\* the value is no literal.
C8_SplitAtFirstEquals ==
  /\ (kv_pc = "raised" /\ kv_i <= Len(tokens) /\ Has(tokens[kv_i], "=")) =>
       /\ kv_err = "MalformedAssignment"
       /\ FirstKey(tokens[kv_i]) = <<>> \/ FirstValue(tokens[kv_i]) = <<>>
  /\ (kv_pc \in {"loop", "returned"} /\ kv_i > 1 /\ Has(tokens[kv_i - 1], "=")) =>
       LET k == FirstKey(tokens[kv_i - 1])
           v == FirstValue(tokens[kv_i - 1])
       IN /\ k /= <<>> /\ v /= <<>>
          /\ HasKey(return_dict, k)
          /\ Get(return_dict, k) =
               (IF LiteralEval(v).ok THEN LiteralEval(v).val ELSE StrVal(v))

\* C9: parse_kv never gets past a bare token that ends with a colon, with or
\* without a space in it: it returns no map and fails there with
\* SuspiciousToken.
C9_ColonTokenRejected ==
  /\ kv_pc \in {"loop", "returned"} =>
       \A i \in 1..(kv_i - 1) : ~Suspicious(tokens[i])
  /\ (kv_pc = "raised" /\ kv_i <= Len(tokens) /\ Suspicious(tokens[kv_i])) =>
       kv_err = "SuspiciousToken"

\* C10: whenever the call without force_json returns the trace, the returned
\* text decodes to a mapping equal to the running total, the one the call with
\* force_json writes as JSON.
C10_TraceDecodesToTotal ==
  (pc = "done" /\ ~force_json /\ YamlLoad(extra_vars_yaml).kind = "map") =>
    /\ YamlLoad(result).kind = "map"
    /\ DictEq(YamlLoad(result).map, extra_vars)

====
